---- MODULE Spec2Model ----
(***************************************************************************)
(* Ranger ingestion engine: the incident store of ingest/schema.sql (the   *)
(* incidents and incident_reports tables, find_potential_duplicates and    *)
(* recalculate_incident_confidence), the review-queue POST handler, and    *)
(* the RSS ingestion script's processFeedItems.                            *)
(*                                                                         *)
(* Numbers.  Confidences are exact fixed-point values: 1.00 is 100 * K,    *)
(* where K = MaxReports!, so that the mean of up to MaxReports extraction  *)
(* confidences given in hundredths is an integer.  Distances are whole     *)
(* metres along a line, times whole minutes, and a match score is kept     *)
(* over the common denominator ScoreDen.                                   *)
(***************************************************************************)
EXTENDS Integers, FiniteSets, Sequences, TLC

\* ------------------------------------------------------------------ bounds
\* At most this many rows are ever inserted into incident_reports.
MaxReports == 3
\* At most this many runs of processFeedItems, each on at most this many feed items.
MaxRuns == 2
MaxFeedLen == 2
\* At most this many incidents rows under GET /review-queue.
MaxQueueRows == 52
\* At most this many runs of generateWeeklyRollups.
MaxRollupRuns == 2
\* calcTrend is applied to counts up to this.
MaxCount == 64
\* At most this many operator actions reach the store (a review-queue POST
\* that passes validation, or the deletion of an incident).
MaxOperatorCalls == 2
\* At most this many runs of ingestRssFeeds.
MaxCycles == 11

\* Runs of the ingestion script next to an operator who edits the sources.
MaxSourceCycles == 3

\* At most this many incidents rows carry location columns.
MaxLocated == 3
\* At most this many reports go through the serial deduplicator.
MaxFiled == 3

\* ------------------------------------------------------- program constants
\* find_potential_duplicates: distance_meters INTEGER DEFAULT 300
distance_meters == 300
\* find_potential_duplicates: time_window_hours INTEGER DEFAULT 3
time_window_hours == 3
\* recalculate_incident_confidence: LEAST(0.99, ...), in hundredths
CapPct == 99
\* COALESCE(avg_confidence, 0.5), in hundredths
DefaultAvgPct == 50
\* LEAST(num_reports - 1, 3) * 0.05
ReportBonusPct == 5
ReportBonusMax == 3
\* LEAST(num_source_types - 1, 2) * 0.1
SourceBonusPct == 10
SourceBonusMax == 2
\* IF new_confidence >= 0.9 ... ELSIF new_confidence >= 0.6
AutoPublishPct == 90
UnverifiedPct == 60
\* incident_id UUID REFERENCES incidents(id): the null reference
NoIncident == 0

RECURSIVE Fact(_)
Fact(n) == IF n <= 1 THEN 1 ELSE n * Fact(n - 1)

\* The fixed-point scale of one hundredth.
K == Fact(MaxReports)

Least(a, b) == IF a <= b THEN a ELSE b
Abs(a) == IF a < 0 THEN -a ELSE a

\* ------------------------------------------------------------ sources table
\* sources.source_type of the configured sources.
SourceType ==
  [scanner |-> "audio", news |-> "html", feed |-> "rss"]

Sources == DOMAIN SourceType

\* ------------------------------------------------------------ observations
\* The extracted and geocoded observations the sources can yield; the index
\* of an observation is the id of its incident_reports row, and
\* (source_id, external_id) is unique over them.
\*   1: scanner report, 02:31, shooting, 0.80          (Scenario A, first)
\*   2: news report 30 m away, 06:00, shooting, 0.85   (Scenario A, second)
\*   3: news report 30 m away, 03:31, shooting, 0.85
\*   4: news report 400 m away, 03:31, shooting, 0.50  (Scenarios B and C)
Observations ==
  << [source_id |-> "scanner", pos |-> 0,   occurred_at |-> 151,
      incident_type |-> "shooting", extraction_confidence |-> 80 * K],
     [source_id |-> "news",    pos |-> 30,  occurred_at |-> 360,
      incident_type |-> "shooting", extraction_confidence |-> 85 * K],
     [source_id |-> "news",    pos |-> 30,  occurred_at |-> 211,
      incident_type |-> "shooting", extraction_confidence |-> 85 * K],
     [source_id |-> "news",    pos |-> 400, occurred_at |-> 211,
      incident_type |-> "shooting", extraction_confidence |-> 50 * K] >>

ReportIds == 1..Len(Observations)

\* Incident ids are handed out in order; every report creates at most one.
IncidentIds == 1..MaxReports

\* The pipeline's dedup workers and the operators calling POST /review-queue.
Workers == {"w1", "w2"}
Operators == {"op1"}

VARIABLES
  incident_reports,  \* report id -> [present, dedup_status, incident_id]
  incidents,         \* live incident id -> row
  allocated,         \* number of incident ids handed out so far
  worker,            \* worker -> its position and locals
  handler,           \* operator -> the position of its POST request
  operator_calls,    \* operator actions that have reached the store
  last,              \* the operation that produced this state
  serial,            \* no two operations have overlapped so far
  news_items,        \* the rows of the news_items table
  runs,              \* runs of processFeedItems so far
  ingested,          \* the <<source, feed items>> whose run has reached the store
  feed_last,         \* the last run of processFeedItems and what it returned
  trend_last,        \* the last call of calcTrend and what it returned
  rollup_data,       \* the incidents and news_items rows the rollup job reads
  weekly_rollups,    \* the rows of the weekly_rollups table
  rollup_runs,       \* runs of generateWeeklyRollups so far
  rollup_last,       \* the last run of generateWeeklyRollups: its week and inputs
  review_rows,       \* review_status of the incidents rows, newest created_at first
  get_last,          \* the last GET /review-queue and its response
  sources,           \* source -> its sources row [is_active, last_fetched_at]
  cycles,            \* runs of ingestRssFeeds so far
  failures,          \* source -> failed fetches in a row, as an observer counts them
  cycle_last,        \* the last run of ingestRssFeeds: whom it fetched, with what result
  incident_locations, \* the location columns of the incidents rows, oldest first
  canonical,         \* incident id -> incidents row, under the serial deduplicator
  filed,             \* the incident_reports rows the serial deduplicator has processed
  dedup_last,        \* its last run: the report, the candidate rows, the decision
  street_centerlines, \* the rows of the street_centerlines table
  block_last         \* the last call of geocode_block_address and its result

coreVars ==
  <<incident_reports, incidents, allocated, worker, handler, operator_calls,
    last, serial>>

feedVars == <<news_items, runs, ingested, feed_last>>

trendVars == <<trend_last>>

rollupVars == <<rollup_data, weekly_rollups, rollup_runs, rollup_last>>

queueVars == <<review_rows, get_last>>

cycleVars == <<sources, cycles, failures, cycle_last>>

geoVars == <<incident_locations>>

dedupVars == <<canonical, filed, dedup_last>>

blockVars == <<street_centerlines, block_last>>

\* What the operations of one part of the program leave alone.
notCore == <<feedVars, trendVars, rollupVars, queueVars, cycleVars, geoVars, dedupVars, blockVars>>
notFeed == <<coreVars, trendVars, rollupVars, queueVars, cycleVars, geoVars, dedupVars, blockVars>>
notTrend == <<coreVars, feedVars, rollupVars, queueVars, cycleVars, geoVars, dedupVars, blockVars>>
notRollup == <<coreVars, feedVars, trendVars, queueVars, cycleVars, geoVars, dedupVars, blockVars>>
notQueue == <<coreVars, feedVars, trendVars, rollupVars, cycleVars, geoVars, dedupVars, blockVars>>
notCycle ==
  <<coreVars, runs, ingested, feed_last, trendVars, rollupVars, queueVars,
    geoVars, dedupVars, blockVars>>
notGeo ==
  <<coreVars, feedVars, trendVars, rollupVars, queueVars, cycleVars, dedupVars,
    blockVars>>
notDedup ==
  <<coreVars, feedVars, trendVars, rollupVars, queueVars, cycleVars, geoVars,
    blockVars>>
notBlock ==
  <<coreVars, feedVars, trendVars, rollupVars, queueVars, cycleVars, geoVars,
    dedupVars>>

vars == <<coreVars, feedVars, trendVars, rollupVars, queueVars, cycleVars, geoVars, dedupVars, blockVars>>

\* ------------------------------------------------------------------- rows
\* dedup_status TEXT DEFAULT 'pending' CHECK (dedup_status IN (...))
DedupStatuses == {"pending", "matched", "new_incident", "rejected"}

\* review_status ... CHECK (review_status IN (...))
ReviewStatuses ==
  {"auto_published", "unverified", "needs_review", "approved", "rejected"}

\* A row that has not been inserted.
AbsentReport ==
  [present |-> FALSE, dedup_status |-> "pending", incident_id |-> NoIncident]

Present == {r \in ReportIds : incident_reports[r].present}

Live == DOMAIN incidents

\* WHERE r.incident_id = incident_uuid
Linked(i) == {r \in Present : incident_reports[r].incident_id = i}

RECURSIVE SumConfidence(_)
SumConfidence(S) ==
  IF S = {} THEN 0
  ELSE LET r == CHOOSE x \in S : TRUE
       IN Observations[r].extraction_confidence + SumConfidence(S \ {r})

\* AVG(extraction_confidence): NULL over no rows.
NullAvg == -1
avg_confidence(S) ==
  IF S = {} THEN NullAvg ELSE SumConfidence(S) \div Cardinality(S)

\* COUNT(*)
num_reports(S) == Cardinality(S)

\* The distinct sources.source_type of the joined rows.
SourceTypesOf(S) == {SourceType[Observations[r].source_id] : r \in S}

\* COUNT(DISTINCT s.source_type)
num_source_types(S) == Cardinality(SourceTypesOf(S))

\* The formula as its comment words it: "+0.1 for each additional report".
new_confidence_TenthPerReport(avg, n, k) ==
  Least(CapPct * K,
        (IF avg = NullAvg THEN DefaultAvgPct * K ELSE avg)
          + Least(n - 1, ReportBonusMax) * SourceBonusPct * K
          + Least(k - 1, SourceBonusMax) * SourceBonusPct * K)

\* new_confidence := LEAST(0.99, COALESCE(avg_confidence, 0.5)
\*   + LEAST(num_reports - 1, 3) * 0.05 + LEAST(num_source_types - 1, 2) * 0.1)
new_confidence(avg, n, k) ==
  Least(CapPct * K,
        (IF avg = NullAvg THEN DefaultAvgPct * K ELSE avg)
          + Least(n - 1, ReportBonusMax) * ReportBonusPct * K
          + Least(k - 1, SourceBonusMax) * SourceBonusPct * K)

\* The thresholds compared with > in place of >=.
new_status_Strict(c) ==
  IF c > AutoPublishPct * K THEN "auto_published"
  ELSE IF c > UnverifiedPct * K THEN "unverified"
  ELSE "needs_review"

\* IF new_confidence >= 0.9 ... ELSIF new_confidence >= 0.6 ... ELSE ...
new_status(c) ==
  IF c >= AutoPublishPct * K THEN "auto_published"
  ELSE IF c >= UnverifiedPct * K THEN "unverified"
  ELSE "needs_review"

\* The update without its CASE: the proposed status always written.
KeepOverride_Overwrite(current, proposed) == proposed

\* review_status = CASE WHEN review_status IN ('approved', 'rejected')
\*                      THEN review_status ELSE new_status END
KeepOverride(current, proposed) ==
  IF current \in {"approved", "rejected"} THEN current ELSE proposed

\* The confidence of a snapshot of linked reports.
ConfidenceOf(S) ==
  new_confidence(avg_confidence(S), num_reports(S), num_source_types(S))

\* ------------------------------------------------- find_potential_duplicates
\* ST_Distance(i.location, report_location), in metres.
ST_Distance(a, b) == Abs(a - b)

WindowMinutes == time_window_hours * 60

\* The common denominator of match scores.
ScoreDen == 10 * distance_meters * WindowMinutes

\* An incident carries the location, time and type of the report it was
\* materialised from.
IncidentObs(i) == Observations[incidents[i].origin]

\* A WHERE clause whose two bounds are exclusive.
WhereClause_Exclusive(x, y) ==
  /\ ST_Distance(x.pos, y.pos) < distance_meters
  /\ x.occurred_at > y.occurred_at - WindowMinutes
  /\ x.occurred_at < y.occurred_at + WindowMinutes

\* WHERE ST_DWithin(i.location, report_location, distance_meters)
\*   AND i.occurred_at BETWEEN report_time - window AND report_time + window
\* for an incident row x and a report y.
WhereClause(x, y) ==
  /\ ST_Distance(x.pos, y.pos) <= distance_meters
  /\ x.occurred_at >= y.occurred_at - WindowMinutes
  /\ x.occurred_at <= y.occurred_at + WindowMinutes

IsCandidate(i, r) == WhereClause(IncidentObs(i), Observations[r])

\* A score that leaves out the type term when the time term is zero.
ScoreOf_DropType(x, y) ==
  5 * (distance_meters - ST_Distance(x.pos, y.pos)) * WindowMinutes
  + 3 * (WindowMinutes - Abs(y.occurred_at - x.occurred_at)) * distance_meters
  + (IF x.incident_type = y.incident_type
          /\ Abs(y.occurred_at - x.occurred_at) < WindowMinutes
       THEN 2 * distance_meters * WindowMinutes ELSE 0)

\* (1 - distance / distance_meters) * 0.5
\*   + (1 - ABS(seconds) / (time_window_hours * 3600)) * 0.3
\*   + CASE WHEN i.incident_type = report_type THEN 0.2 ELSE 0 END
\* for an incident row x and a report y, in units of 1 / ScoreDen.
ScoreOf(x, y) ==
  5 * (distance_meters - ST_Distance(x.pos, y.pos)) * WindowMinutes
  + 3 * (WindowMinutes - Abs(y.occurred_at - x.occurred_at)) * distance_meters
  + (IF x.incident_type = y.incident_type
       THEN 2 * distance_meters * WindowMinutes ELSE 0)

match_score(i, r) == ScoreOf(IncidentObs(i), Observations[r])

find_potential_duplicates(r) == {i \in Live : IsCandidate(i, r)}

\* ORDER BY match_score DESC: the rows that may come first.
FirstRows(r) ==
  {i \in find_potential_duplicates(r) :
     \A j \in find_potential_duplicates(r) : match_score(j, r) <= match_score(i, r)}

\* The deduplicator's cutoff, 0.55, in hundredths.
MatchThresholdPct == 55

\* A cutoff that the score must exceed.
MeetsThreshold_Above(score) == score * 100 > MatchThresholdPct * ScoreDen

\* score >= 0.55
MeetsThreshold(score) == score * 100 >= MatchThresholdPct * ScoreDen

\* The candidates the deduplicator may link the report to.
Matches(r) == {i \in FirstRows(r) : MeetsThreshold(match_score(i, r))}

\* ------------------------------------------------------ serial deduplicator
\* One worker processing reports one after the other, each in full: the
\* candidate query, the decision, and the recompute of report_count.  The
\* reports lie on the bounds of the query and of the decision:
\*   1: the reference report
\*   2: 150 m and 120 min from 1, same type: score 0.55 against 1
\*   3: 150 m and 121 min from 1, same type: score just under 0.55
\*   4: 300 m and 180 min from 1, other type: on both bounds, score 0
\*   5: 301 m from 1                 6: 181 min from 1
\*   7: 400 m and 60 min from 1, same type
\*   8: at 1, other type             9: 300 m from 1, same time and type
\*  10: 150 m from 1 and from 9, same time and type
DedupReports ==
  << [pos |-> 0,   occurred_at |-> 1000, incident_type |-> "shooting"],
     [pos |-> 150, occurred_at |-> 1120, incident_type |-> "shooting"],
     [pos |-> 150, occurred_at |-> 1121, incident_type |-> "shooting"],
     [pos |-> 300, occurred_at |-> 1180, incident_type |-> "fire"],
     [pos |-> 301, occurred_at |-> 1000, incident_type |-> "shooting"],
     [pos |-> 0,   occurred_at |-> 1181, incident_type |-> "shooting"],
     [pos |-> 400, occurred_at |-> 1060, incident_type |-> "shooting"],
     [pos |-> 0,   occurred_at |-> 1000, incident_type |-> "fire"],
     [pos |-> 300, occurred_at |-> 1000, incident_type |-> "shooting"],
     [pos |-> 150, occurred_at |-> 1000, incident_type |-> "shooting"] >>

\* FROM incidents i WHERE ...: the ids of the rows the query returns.
Candidates(rows, y) == {i \in DOMAIN rows : WhereClause(rows[i], y)}

\* SELECT i.id as incident_id, ST_Distance(...) as distance_meters,
\*   EXTRACT(EPOCH FROM (report_time - i.occurred_at)) / 60 as
\*   time_diff_minutes, ... as match_score
ReturnedRow(rows, i, y) ==
  [incident_id |-> i,
   distance_meters |-> ST_Distance(rows[i].pos, y.pos),
   time_diff_minutes |-> y.occurred_at - rows[i].occurred_at,
   match_score |-> ScoreOf(rows[i], y)]

\* An ordering that, among rows of equal score, puts the nearest first, then
\* the closest in time, then the smallest id.
FirstOf_Stable(rows, y) ==
  {i \in Candidates(rows, y) :
     \A j \in Candidates(rows, y) :
       \/ ScoreOf(rows[j], y) < ScoreOf(rows[i], y)
       \/ /\ ScoreOf(rows[j], y) = ScoreOf(rows[i], y)
          /\ \/ ST_Distance(rows[i].pos, y.pos) < ST_Distance(rows[j].pos, y.pos)
             \/ /\ ST_Distance(rows[i].pos, y.pos) = ST_Distance(rows[j].pos, y.pos)
                /\ \/ Abs(y.occurred_at - rows[i].occurred_at)
                        < Abs(y.occurred_at - rows[j].occurred_at)
                   \/ /\ Abs(y.occurred_at - rows[i].occurred_at)
                           = Abs(y.occurred_at - rows[j].occurred_at)
                      /\ i <= j}

\* ORDER BY match_score DESC: the rows that may come first; rows of equal
\* score come in an order the query does not fix.
FirstOf(rows, y) ==
  {i \in Candidates(rows, y) :
     \A j \in Candidates(rows, y) : ScoreOf(rows[j], y) <= ScoreOf(rows[i], y)}

\* COUNT(*) of recalculate_incident_confidence over the processed reports.
CountLinked(reports, i) ==
  num_reports({k \in DOMAIN reports : reports[k].incident_id = i})

NoDedup ==
  [called |-> FALSE, report |-> 0, before |-> <<>>, rows |-> {},
   first |-> NoIncident]

\* The report is linked to the first row when its score meets the threshold.
LinkTo(k, i) ==
  /\ filed' = Append(filed, [report |-> k, dedup_status |-> "matched",
                             incident_id |-> i])
  /\ canonical' =
       [canonical EXCEPT ![i].report_count = CountLinked(filed', i)]

\* Otherwise an incident is created from the report.
CreateFrom(k) ==
  /\ filed' = Append(filed, [report |-> k, dedup_status |-> "new_incident",
                             incident_id |-> Len(canonical) + 1])
  /\ canonical' =
       Append(canonical,
              [pos |-> DedupReports[k].pos,
               occurred_at |-> DedupReports[k].occurred_at,
               incident_type |-> DedupReports[k].incident_type,
               report_count |-> 1])

Searched(k, first) ==
  [called |-> TRUE, report |-> k, before |-> canonical,
   rows |-> {ReturnedRow(canonical, i, DedupReports[k]) :
               i \in Candidates(canonical, DedupReports[k])},
   first |-> first]

process_report(k) ==
  /\ Len(filed) < MaxFiled
  /\ \/ /\ Candidates(canonical, DedupReports[k]) = {}
        /\ CreateFrom(k)
        /\ dedup_last' = Searched(k, NoIncident)
     \/ \E i \in FirstOf(canonical, DedupReports[k]) :
          /\ IF MeetsThreshold(ScoreOf(canonical[i], DedupReports[k]))
               THEN LinkTo(k, i)
               ELSE CreateFrom(k)
          /\ dedup_last' = Searched(k, i)
  /\ UNCHANGED notDedup

\* ------------------------------------------------- IEEE 754 double precision
\* A JavaScript Number that is not zero: sign, 53 significand bits (most
\* significant first, the first one 1) and exponent e, worth
\* (-1)^sign * 1.bbb...b * 2^e.  The significands are kept as bit sequences:
\* they do not fit a 32-bit integer.
SignificandBits == 53

RECURSIVE ToBits(_)
ToBits(n) == IF n = 0 THEN <<>> ELSE ToBits(n \div 2) \o <<n % 2>>

RECURSIVE ToInt(_)
ToInt(bits) ==
  IF bits = <<>> THEN 0
  ELSE 2 * ToInt(SubSeq(bits, 1, Len(bits) - 1)) + bits[Len(bits)]

\* bits + 1; one bit longer when every bit was 1.
RECURSIVE Inc(_)
Inc(bits) ==
  IF bits = <<>> THEN <<1>>
  ELSE IF bits[Len(bits)] = 0 THEN SubSeq(bits, 1, Len(bits) - 1) \o <<1>>
  ELSE Inc(SubSeq(bits, 1, Len(bits) - 1)) \o <<0>>

\* Round a significand of 53 or more bits, followed by a sticky flag for what
\* was cut off before, to 53 bits: to nearest, ties to even.  carry is 1
\* when the rounding reached the next power of two.
Round53(bits, sticky) ==
  LET keep == SubSeq(bits, 1, SignificandBits)
      guard == IF Len(bits) > SignificandBits THEN bits[SignificandBits + 1] ELSE 0
      below == sticky \/ \E j \in (SignificandBits + 2)..Len(bits) : bits[j] = 1
      up == guard = 1 /\ (below \/ keep[SignificandBits] = 1)
      m == IF up THEN Inc(keep) ELSE keep
  IN IF Len(m) > SignificandBits
       THEN [m |-> SubSeq(m, 1, SignificandBits), carry |-> 1]
       ELSE [m |-> m, carry |-> 0]

\* n / p brought into [1, 2) by powers of two: n / p = (s.n / s.p) * 2^s.e.
RECURSIVE Scale(_, _, _)
Scale(n, p, e) ==
  IF n >= 2 * p THEN Scale(n, 2 * p, e + 1)
  ELSE IF n < p THEN Scale(2 * n, p, e - 1)
  ELSE [n |-> n, p |-> p, e |-> e]

\* The remainder left after k bits of r / p, for r < p.
RECURSIVE DivRem(_, _, _)
DivRem(r, p, k) == IF k = 0 THEN r ELSE (2 * DivRem(r, p, k - 1)) % p

\* The first k bits of r / p after the binary point, for r < p.
DivBits(r, p, k) == [j \in 1..k |-> (2 * DivRem(r, p, j - 1)) \div p]

\* a / p in double arithmetic, for integers a # 0 and p > 0.
FDiv(a, p) ==
  LET s == Scale(Abs(a), p, 0)
      bits == DivBits(s.n - s.p, s.p, SignificandBits)
      r == Round53(<<1>> \o bits, DivRem(s.n - s.p, s.p, SignificandBits) # 0)
  IN [sign |-> IF a < 0 THEN 1 ELSE 0, m |-> r.m, e |-> s.e + r.carry]

\* The carry into bit j (counted from the least significant, from 0) of
\* bits * k, for a small k.
RECURSIVE CarryInto(_, _, _)
CarryInto(bits, k, j) ==
  IF j = 0 THEN 0
  ELSE (bits[Len(bits) - j + 1] * k + CarryInto(bits, k, j - 1)) \div 2

\* bits * k, exactly.
MulCarry(bits, k) ==
  ToBits(CarryInto(bits, k, Len(bits)))
    \o [i \in 1..Len(bits) |-> (bits[i] * k + CarryInto(bits, k, Len(bits) - i)) % 2]

\* x * k in double arithmetic, for a small integer k > 0.
FMul(x, k) ==
  LET prod == MulCarry(x.m, k)
      r == Round53(prod, FALSE)
  IN [sign |-> x.sign, m |-> r.m,
      e |-> x.e + (Len(prod) - SignificandBits) + r.carry]

\* Math.round(x): the integer closest to x, the one towards +infinity when
\* two are equally close.  For |x| < 2^31.
MathRound(x) ==
  LET whole == IF x.e >= 0 THEN ToInt(SubSeq(x.m, 1, x.e + 1)) ELSE 0
      half == IF x.e >= 0 THEN x.m[x.e + 2] ELSE IF x.e = -1 THEN 1 ELSE 0
      more == half = 1 /\ \E j \in (x.e + 3)..SignificandBits : j >= 2 /\ x.m[j] = 1
  IN IF x.sign = 0 THEN whole + half
     ELSE 0 - (whole + (IF more THEN 1 ELSE 0))

\* ---------------------------------------------------------------- calcTrend
\* function calcTrend(current, previous)
calcTrend(current, previous) ==
  IF previous = 0 THEN (IF current > 0 THEN 100 ELSE 0)
  ELSE IF current = previous THEN 0
  ELSE MathRound(FMul(FDiv(current - previous, previous), 100))

NoTrend == [current |-> 0, previous |-> 0, result |-> 0, called |-> FALSE]

\* One call of calcTrend on two counts.
CalcTrend(current, previous) ==
  /\ ~trend_last.called
  /\ trend_last' = [current |-> current, previous |-> previous,
                    result |-> calcTrend(current, previous), called |-> TRUE]
  /\ UNCHANGED notTrend

\* ------------------------------------------------------- GET /review-queue
\* The incidents table as the GET reads it: the review_status of each row,
\* in the order of created_at descending.  Rows are named by their place.
\* A query parameter is <<>> when absent and <<v>> when given as integer v.
LimitParams == {<<>>, <<-1>>, <<0>>, <<1>>, <<51>>, <<60>>}
OffsetParams == {<<>>, <<-1>>, <<1>>, <<60>>}

DefaultLimit == 20
MaxLimit == 50

\* parseInt(searchParams.get(name) || dflt)
parseParam(param, dflt) == IF param = <<>> THEN dflt ELSE param[1]

\* A limit taken as given.
limit_Uncapped(param) == parseParam(param, DefaultLimit)

\* const limit = Math.min(parseInt(searchParams.get('limit') || '20'), 50)
limit(param) == Least(parseParam(param, DefaultLimit), MaxLimit)

\* const offset = parseInt(searchParams.get('offset') || '0')
offset(param) == parseParam(param, 0)

\* .eq('review_status', 'needs_review')
NeedsReview(rows) == {i \in 1..Len(rows) : rows[i] = "needs_review"}

\* The place of row i in the filtered, ordered result, counted from 0.
Position(rows, i) == Cardinality({j \in NeedsReview(rows) : j < i})

\* .range(from, to): the rows at places from .. to of the result.
Range(rows, from, to) ==
  {i \in NeedsReview(rows) : Position(rows, i) >= from /\ Position(rows, i) <= to}

NoGet == [called |-> FALSE, limit |-> <<>>, offset |-> <<>>, http |-> 0,
          queue |-> {}, total |-> 0]

GetResponse(l, o, http, queue, total) ==
  [called |-> TRUE, limit |-> l, offset |-> o, http |-> http,
   queue |-> queue, total |-> total]

\* An incident row is created (it is the newest) with some review_status;
\* at most one row of the table is not in needs_review.
InsertReviewRow(status) ==
  /\ Len(review_rows) < MaxQueueRows
  /\ status # "needs_review" => \A i \in 1..Len(review_rows) :
                                   review_rows[i] = "needs_review"
  /\ review_rows' = <<status>> \o review_rows
  /\ get_last' = NoGet
  /\ UNCHANGED notQueue

\* export async function GET(request).  The store refuses a negative offset
\* or limit; it answers a limit of 0, or an offset past the last row, with
\* an empty result or with an error, depending on its version; any call
\* may fail.  The GET writes nothing, so one GET is followed between two
\* changes of the table.
GET(l, o) ==
  /\ ~get_last.called
  /\ \/ /\ offset(o) >= 0 /\ limit(l) >= 0
        /\ limit(l) > 0
        /\ offset(o) = 0 \/ offset(o) < Cardinality(NeedsReview(review_rows))
        /\ get_last' = GetResponse(l, o, 200,
                         Range(review_rows, offset(o), offset(o) + limit(l) - 1),
                         Cardinality(NeedsReview(review_rows)))
     \/ /\ offset(o) >= 0 /\ limit(l) >= 0
        /\ \/ limit(l) = 0
           \/ offset(o) > 0 /\ offset(o) >= Cardinality(NeedsReview(review_rows))
        /\ get_last' = GetResponse(l, o, 200, {},
                                   Cardinality(NeedsReview(review_rows)))
     \/ get_last' = GetResponse(l, o, 500, {}, 0)
  /\ UNCHANGED review_rows
  /\ UNCHANGED notQueue

\* ------------------------------------------------------- weekly rollup job
\* A week in milliseconds; times are milliseconds since the Monday 00:00 that
\* starts week 0.
WeekMs == 604800000

\* The SQL NULL of a municipality column or argument.
Null == "null"

\* The rows of incidents and news_items the job may find, with the time
\* (occurred_at, published_at) each is counted by:
\*   1: in the middle of week 1;      2: the last millisecond of week 1;
\*   3: the last millisecond of week 0; 4: the first millisecond of week 1.
RollupData ==
  << [id |-> 1, table |-> "incidents", at |-> WeekMs + 1000,
      category |-> "property_crime", municipality |-> Null],
     [id |-> 2, table |-> "incidents", at |-> WeekMs + WeekMs - 1,
      category |-> "violent_crime", municipality |-> "Crystal Lake"],
     [id |-> 3, table |-> "incidents", at |-> WeekMs - 1,
      category |-> "property_crime", municipality |-> Null],
     [id |-> 4, table |-> "incidents", at |-> WeekMs,
      category |-> "property_crime", municipality |-> "Crystal Lake"],
     [id |-> 5, table |-> "news_items", at |-> WeekMs + 1000,
      category |-> "business", municipality |-> "Crystal Lake"] >>

\* The weeks the job may be started in (now lies in that week).
CurrentWeeks == {1, 2}

\* startOfWeek(now, {weekStartsOn: 1}) for a now in week w.
startOfWeek(w) == w * WeekMs

\* endOfWeek(weekStartDate, {weekStartsOn: 1}): Sunday 23:59:59.999.
endOfWeek(weekStart) == weekStart + WeekMs - 1

\* subWeeks(date, 1)
subWeeks(date) == date - WeekMs

\* The rows a stats query selects: .gte(at, weekStart).lt(at, weekEnd), and
\* .eq('municipality', municipality) when a municipality is given.
Selected(data, table, weekStart, weekEnd, municipality) ==
  {row \in data :
     /\ row.table = table
     /\ row.at >= weekStart /\ row.at < weekEnd
     /\ municipality # Null => row.municipality = municipality}

\* getIncidentStats / getNewsStats: the count of the selected rows by category.
Stats(data, table, weekStart, weekEnd, municipality) ==
  LET rows == Selected(data, table, weekStart, weekEnd, municipality)
  IN [c \in {row.category : row \in rows} |->
        Cardinality({row \in rows : row.category = c})]

\* stats.reduce((sum, s) => sum + s.count, 0)
RECURSIVE SumCounts(_)
SumCounts(stats) ==
  IF DOMAIN stats = {} THEN 0
  ELSE LET c == CHOOSE c \in DOMAIN stats : TRUE
       IN stats[c] + SumCounts([d \in DOMAIN stats \ {c} |-> stats[d]])

\* The row generateRollup computes for a week and a municipality (or Null).
RollupRow(data, weekStart, municipality) ==
  LET incidentStats == Stats(data, "incidents", weekStart,
                             endOfWeek(weekStart), municipality)
      newsStats == Stats(data, "news_items", weekStart,
                         endOfWeek(weekStart), municipality)
      prevIncidentStats == Stats(data, "incidents", subWeeks(weekStart),
                                 weekStart, municipality)
  IN [week_start |-> weekStart,
      municipality |-> municipality,
      incident_count |-> SumCounts(incidentStats),
      incidents_by_category |-> incidentStats,
      incident_trend |-> calcTrend(SumCounts(incidentStats),
                                   SumCounts(prevIncidentStats)),
      news_count |-> SumCounts(newsStats),
      news_by_category |-> newsStats]

\* The rows the unique key (week_start, municipality) finds in conflict with
\* a new row: as any SQL unique key, it never matches a NULL.
RollupConflicts(rollups, new) ==
  {row \in rollups :
     /\ row.week_start = new.week_start
     /\ row.municipality = new.municipality
     /\ new.municipality # Null}

WithId(new, id) ==
  [id |-> id, week_start |-> new.week_start, municipality |-> new.municipality,
   incident_count |-> new.incident_count,
   incidents_by_category |-> new.incidents_by_category,
   incident_trend |-> new.incident_trend, news_count |-> new.news_count,
   news_by_category |-> new.news_by_category]

\* .from('weekly_rollups').upsert({...}, {onConflict: 'week_start,municipality'}):
\* the row in conflict takes the new values, or the new row is inserted.
UpsertRollup(rollups, new) ==
  IF RollupConflicts(rollups, new) = {}
    THEN rollups \cup {WithId(new, Cardinality(rollups) + 1)}
    ELSE (rollups \ RollupConflicts(rollups, new))
           \cup {WithId(new, row.id) : row \in RollupConflicts(rollups, new)}

\* generateRollup(supabase, weekStartDate, municipality)
generateRollup(rollups, data, weekStart, municipality) ==
  UpsertRollup(rollups, RollupRow(data, weekStart, municipality))

\* for (const municipality of municipalities) generateRollup(...)
RECURSIVE ForEachMunicipality(_, _, _, _)
ForEachMunicipality(rollups, data, weekStart, municipalities) ==
  IF municipalities = {} THEN rollups
  ELSE LET m == CHOOSE m \in municipalities : TRUE
       IN ForEachMunicipality(generateRollup(rollups, data, weekStart, m),
                              data, weekStart, municipalities \ {m})

NoRollup == [week |-> 0, inputs |-> {}, called |-> FALSE]

\* A row arrives in incidents or news_items.
InsertRollupData(k) ==
  /\ RollupData[k] \notin rollup_data
  /\ rollup_data' = rollup_data \cup {RollupData[k]}
  /\ UNCHANGED <<weekly_rollups, rollup_runs, rollup_last>>
  /\ UNCHANGED notRollup

\* generateWeeklyRollups(), started in week w: the region-wide rollup of the
\* current week, one per municipality found in the data, and the region-wide
\* rollup of the week before.
generateWeeklyRollups(w) ==
  /\ rollup_runs < MaxRollupRuns
  /\ rollup_runs' = rollup_runs + 1
  /\ LET currentWeekStart == startOfWeek(w)
         municipalities == {row.municipality : row \in rollup_data} \ {Null}
         county == generateRollup(weekly_rollups, rollup_data,
                                  currentWeekStart, Null)
         towns == ForEachMunicipality(county, rollup_data, currentWeekStart,
                                      municipalities)
     IN weekly_rollups' = generateRollup(towns, rollup_data,
                                         subWeeks(currentWeekStart), Null)
  /\ rollup_last' = [week |-> w, inputs |-> rollup_data, called |-> TRUE]
  /\ UNCHANGED rollup_data
  /\ UNCHANGED notRollup

\* --------------------------------------------------------- processFeedItems
\* The feed items a parsed feed may hold ("" is a missing field):
\*   1: guid and link;  2: link only;  3: neither guid, link nor id;
\*   4: a guid equal to the link of item 2.
FeedItems ==
  << [guid |-> "g1", link |-> "l1", id |-> "",   title |-> "t1"],
     [guid |-> "",   link |-> "l2", id |-> "",   title |-> "t2"],
     [guid |-> "",   link |-> "",   id |-> "",   title |-> "t3"],
     [guid |-> "l2", link |-> "l4", id |-> "",   title |-> "t4"] >>

\* The sources rows the ingestion script iterates over.
FeedSources == {"s1", "s2"}

\* The lists of at most n feed items.
RECURSIVE Feeds(_)
Feeds(n) ==
  IF n = 0 THEN {<<>>}
  ELSE Feeds(n - 1) \cup
       {Append(f, x) : f \in {g \in Feeds(n - 1) : Len(g) = n - 1},
                       x \in 1..Len(FeedItems)}

\* const externalId = item.guid || item.link || item.id
externalId(item) ==
  IF item.guid # "" THEN item.guid
  ELSE IF item.link # "" THEN item.link
  ELSE item.id

\* The rows pushed to newsItems: one per item that has an external id.
RECURSIVE newsItems(_, _)
newsItems(source, feedItems) ==
  IF feedItems = <<>> THEN <<>>
  ELSE LET item == FeedItems[Head(feedItems)]
           rest == newsItems(source, Tail(feedItems))
       IN IF externalId(item) = "" THEN rest
          ELSE <<[source_id |-> source, external_id |-> externalId(item),
                  title |-> item.title]>> \o rest

Conflicts(rows, x) ==
  \E row \in rows :
    row.source_id = x.source_id /\ row.external_id = x.external_id

Stored(rows, x) ==
  rows \cup {[id |-> Cardinality(rows) + 1, source_id |-> x.source_id,
              external_id |-> x.external_id, title |-> x.title]}

\* An insert that does not look for a conflicting row.
RECURSIVE Upsert_InsertAll(_, _)
Upsert_InsertAll(rows, batch) ==
  IF batch = <<>> THEN rows
  ELSE Upsert_InsertAll(Stored(rows, Head(batch)), Tail(batch))

\* .upsert(newsItems, {onConflict: 'source_id,external_id',
\*                     ignoreDuplicates: true})
RECURSIVE Upsert(_, _)
Upsert(rows, batch) ==
  IF batch = <<>> THEN rows
  ELSE IF Conflicts(rows, Head(batch)) THEN Upsert(rows, Tail(batch))
  ELSE Upsert(Stored(rows, Head(batch)), Tail(batch))

\* refused: the place in the batch of the row the store refused (0: none; an
\* error with no refused row is a request that never reached the table).
NoRun == [source |-> "none", items |-> <<>>, inserted |-> 0, skipped |-> 0,
          error |-> FALSE, refused |-> 0]

Returned(source, feedItems, inserted, skipped, error) ==
  [source |-> source, items |-> feedItems, inserted |-> inserted,
   skipped |-> skipped, error |-> error, refused |-> 0]

processFeedItems(source, feedItems) ==
  /\ runs < MaxRuns
  /\ runs' = runs + 1
  /\ LET batch == newsItems(source, feedItems)
     IN \/ /\ Len(batch) = 0
           /\ feed_last' = Returned(source, feedItems, 0, Len(feedItems), FALSE)
           /\ ingested' = ingested \cup {<<source, feedItems>>}
           /\ UNCHANGED news_items
        \/ /\ Len(batch) > 0
           /\ \E k \in 0..Len(batch) :
                feed_last' =
                  [Returned(source, feedItems, 0, Len(batch), TRUE)
                     EXCEPT !.refused = k]
           /\ UNCHANGED <<news_items, ingested>>
        \/ /\ Len(batch) > 0
           /\ news_items' = Upsert(news_items, batch)
           /\ ingested' = ingested \cup {<<source, feedItems>>}
           /\ LET inserted == Cardinality(Upsert(news_items, batch))
                                - Cardinality(news_items)
              IN feed_last' = Returned(source, feedItems, inserted,
                                       Len(batch) - inserted, FALSE)
  /\ UNCHANGED notFeed


\* ---------------------------------------------------------- ingestRssFeeds
\* last_fetched_at TIMESTAMPTZ: the column has no default, a new row holds
\* NULL.  A time is the number of the cycle whose clock produced it.
NullTime == 0

\* is_active BOOLEAN DEFAULT true; the upsert of ensureSources sets it too.
NewSource == [is_active |-> TRUE, last_fetched_at |-> NullTime]

\* What one source yields in one cycle: fetchFeed returns an error or a feed,
\* and the store accepts or refuses the batch made of the feed.
FetchOutcomes ==
  {[error |-> TRUE, items |-> <<>>, refused |-> FALSE]} \cup
  {[error |-> FALSE, items |-> f, refused |-> r] :
     f \in {<<>>, <<1>>}, r \in {FALSE}} \cup
  {[error |-> FALSE, items |-> <<1>>, refused |-> TRUE]}

\* upsert({..., is_active: true, ...}, {onConflict: 'url'}) for each source
\* of the configuration; an upsert that fails is logged and the row is left
\* as it was.
ensureSources(rows, refused) ==
  [s \in DOMAIN rows \cup (FeedSources \ refused) |->
     IF s \in refused THEN rows[s]
     ELSE IF s \in DOMAIN rows THEN [rows[s] EXCEPT !.is_active = TRUE]
     ELSE NewSource]

\* .from('sources').select('*').eq('type', 'rss').eq('is_active', true)
ActiveSources(rows) == {s \in DOMAIN rows : rows[s].is_active}

\* The orders in which the select may return the rows.
Orders(S) ==
  {q \in [1..Cardinality(S) -> S] : \A s \in S : \E k \in DOMAIN q : q[k] = s}

\* processFeedItems as called by the cycle: the rows of news_items afterwards.
ProcessItems(rows, s, fetch) ==
  IF Len(newsItems(s, fetch.items)) = 0 \/ fetch.refused THEN rows
  ELSE Upsert(rows, newsItems(s, fetch.items))

\* A loop body that stamps the source whatever fetchFeed returned.
FetchStep_Stamp(st, s, fetch, now) ==
  IF fetch.error
  THEN [st EXCEPT !.failed = @ \cup {s},
                  !.sources[s].last_fetched_at = now]
  ELSE [st EXCEPT !.processed = @ \cup {s},
                  !.news_items = ProcessItems(@, s, fetch),
                  !.sources[s].last_fetched_at = now]

\* The body of `for (const source of sources)`: a failed fetch counts and
\* continues; otherwise the items are processed and last_fetched_at is set.
FetchStep(st, s, fetch, now) ==
  IF fetch.error
  THEN [st EXCEPT !.failed = @ \cup {s}]
  ELSE [st EXCEPT !.processed = @ \cup {s},
                  !.news_items = ProcessItems(@, s, fetch),
                  !.sources[s].last_fetched_at = now]

RECURSIVE ForEachSource(_, _, _, _)
ForEachSource(order, fetch, now, st) ==
  IF order = <<>> THEN st
  ELSE ForEachSource(Tail(order), fetch, now,
                     FetchStep(st, Head(order), fetch[Head(order)], now))

NoCycle == [exit |-> 0, order |-> <<>>, failed |-> {}, processed |-> {}]

\* One run of the script.  failures counts, for each source, the cycles in a
\* row in which its fetch failed; the script itself keeps no such count.
ingestRssFeeds(refused, selectError, fetch) ==
  /\ cycles < MaxCycles
  /\ cycles' = cycles + 1
  /\ IF selectError
     THEN /\ sources' = ensureSources(sources, refused)
          /\ cycle_last' = [NoCycle EXCEPT !.exit = 1]
          /\ UNCHANGED <<news_items, failures>>
     ELSE \E order \in Orders(ActiveSources(ensureSources(sources, refused))) :
            LET st == ForEachSource(order, fetch, cycles + 1,
                        [sources |-> ensureSources(sources, refused),
                         news_items |-> news_items,
                         failed |-> {}, processed |-> {}])
            IN /\ sources' = st.sources
               /\ news_items' = st.news_items
               /\ failures' = [s \in FeedSources |->
                                 IF s \in st.failed THEN failures[s] + 1
                                 ELSE IF s \in st.processed THEN 0
                                 ELSE failures[s]]
               /\ cycle_last' = [exit |-> 0, order |-> order,
                                 failed |-> st.failed,
                                 processed |-> st.processed]
  /\ UNCHANGED notCycle


\* An operator sets is_active of a sources row: the column is written by the
\* upsert of ensureSources and by whoever edits the table.
SetActive(s, active) ==
  /\ s \in DOMAIN sources
  /\ sources[s].is_active # active
  /\ sources' = [sources EXCEPT ![s].is_active = active]
  /\ UNCHANGED <<cycles, failures, cycle_last, news_items>>
  /\ UNCHANGED notCycle

\* One run of the script, of the few that are made next to the operator.
RunBetweenEdits(refused, selectError, fetch) ==
  /\ cycles < MaxSourceCycles
  /\ ingestRssFeeds(refused, selectError, fetch)


\* ----------------------------------------------------------------- geocoder
\* Confidences in hundredths.  Tier 1 (Parcel): 95% confidence.
ParcelPct == 95
\* geocode_block_address: 0.7 as confidence
BlockPct == 70
\* Tier 3 (Anchor): city centroid, 30% confidence.
CentroidPct == 30
\* location_confidence FLOAT DEFAULT 0.5
DefaultLocationPct == 50

\* CHECK (location_resolution IN ('parcel', 'block', 'centroid', 'unknown')),
\* in the order of the tiers.
Tiers == <<"parcel", "block", "centroid", "unknown">>

TierRank(resolution) == CHOOSE k \in DOMAIN Tiers : Tiers[k] = resolution

\* What the lookups of the three tiers yield for one address: a match or none.
Lookups == [parcel : BOOLEAN, block : BOOLEAN, centroid : BOOLEAN]

\* RETURNS TABLE (location, confidence, resolution): one row when a street
\* centerline matches, no row otherwise.
geocode_block_address(match) ==
  IF match.block
  THEN {[location_resolution |-> "block", location_confidence |-> BlockPct]}
  ELSE {}

\* The first tier that yields a match wins; with no match the resolution is
\* unknown and the confidence 0.
geocode(match) ==
  IF match.parcel
  THEN [location_resolution |-> "parcel", location_confidence |-> ParcelPct]
  ELSE IF geocode_block_address(match) # {}
  THEN CHOOSE row \in geocode_block_address(match) : TRUE
  ELSE IF match.centroid
  THEN [location_resolution |-> "centroid", location_confidence |-> CentroidPct]
  ELSE [location_resolution |-> "unknown", location_confidence |-> 0]

\* location_resolution TEXT DEFAULT 'unknown', location_confidence FLOAT
\* DEFAULT 0.5: the columns of a row inserted without them.
DefaultLocation ==
  [location_resolution |-> "unknown", location_confidence |-> DefaultLocationPct]

\* An incident is created from a geocoded report.
InsertGeocoded(match) ==
  /\ Len(incident_locations) < MaxLocated
  /\ incident_locations' = Append(incident_locations, geocode(match))
  /\ UNCHANGED notGeo

\* An incident is created by an INSERT that names no location column.
InsertDefault ==
  /\ Len(incident_locations) < MaxLocated
  /\ incident_locations' = Append(incident_locations, DefaultLocation)
  /\ UNCHANGED notGeo

\* ---------------------------------------------------- geocode_block_address
\* A text is a sequence of tokens separated by white space: a word, or a
\* number (run of digits).
Word(w) == [w |-> w, n |-> -1]
Number(n) == [w |-> "", n |-> n]

\* lower(): the words that are written with capitals here.
Lowered ==
  [w \in {"N", "Main", "St", "Street", "BLOCK", "Oak", "Ave", "Of"} |->
     CASE w = "N" -> "n" [] w = "Main" -> "main" [] w = "St" -> "st"
       [] w = "Street" -> "street" [] w = "BLOCK" -> "block"
       [] w = "Oak" -> "oak" [] w = "Ave" -> "ave" [] w = "Of" -> "of"]

lower(token) ==
  IF token.w \in DOMAIN Lowered THEN Word(Lowered[token.w]) ELSE token

\* (st|street|ave|avenue|rd|road|dr|drive|ln|lane|ct|court|blvd|boulevard)
StreetTypes ==
  {"st", "street", "ave", "avenue", "rd", "road", "dr", "drive", "ln",
   "lane", "ct", "court", "blvd", "boulevard"}

\* The addresses passed to the function.
BlockAddresses ==
  { <<Number(100), Word("block"), Word("of"), Word("N"), Word("Main"), Word("St")>>,
    <<Number(100), Word("BLOCK"), Word("Main"), Word("Street")>>,
    <<Number(250), Word("block"), Word("Of"), Word("Main"), Word("St")>>,
    <<Number(452), Word("Main"), Word("St")>>,
    <<Word("near"), Number(100), Word("block"), Word("of"), Word("Main"), Word("St")>>,
    <<Number(100), Word("block")>>,
    <<Number(100), Word("block"), Word("of"), Word("Oak"), Word("Ave")>>,
    <<Number(100), Word("block"), Word("of"), Word("St")>> }

Regions == {"mchenry_county", "lake_county"}

\* from_address INTEGER, to_address INTEGER: NULL when the range is unknown.
NullAddress == -1

\* The centerlines that may be loaded.
Centerlines ==
  { [id |-> 1, region |-> "mchenry_county",
     street_name_normalized |-> <<Word("n"), Word("main")>>,
     from_address |-> 1, to_address |-> 199],
    [id |-> 2, region |-> "mchenry_county",
     street_name_normalized |-> <<Word("main")>>,
     from_address |-> 200, to_address |-> 299],
    [id |-> 3, region |-> "lake_county",
     street_name_normalized |-> <<Word("main")>>,
     from_address |-> 100, to_address |-> 100],
    [id |-> 4, region |-> "mchenry_county",
     street_name_normalized |-> <<Word("oak")>>,
     from_address |-> NullAddress, to_address |-> NullAddress],
    [id |-> 5, region |-> "mchenry_county",
     street_name_normalized |-> <<Word("s"), Word("main")>>,
     from_address |-> 1, to_address |-> 199] }

\* The places where '(\d+)\s*block' matches, without regard to case.
BlockPattern(address) ==
  {j \in 1..(Len(address) - 1) :
     address[j].n >= 0 /\ lower(address[j + 1]) = Word("block")}

First(S) == CHOOSE j \in S : \A k \in S : j <= k

\* regexp_replace(block_address, '^\d+\s*block\s*(of\s*)?', '', 'i'): the
\* pattern is anchored at the start of the text.
StripBlock(address) ==
  IF 1 \in BlockPattern(address)
  THEN IF Len(address) >= 3 /\ lower(address[3]) = Word("of")
       THEN SubSeq(address, 4, Len(address))
       ELSE SubSeq(address, 3, Len(address))
  ELSE address

\* regexp_replace(..., '\s+(st|street|...)\.?$', '', 'i'): a last word that
\* is a street type and has white space before it is removed.
StripType(text) ==
  IF Len(text) >= 2 /\ lower(text[Len(text)]).w \in StreetTypes
  THEN SubSeq(text, 1, Len(text) - 1)
  ELSE text

\* normalized_name := lower(trim(street_name))
normalized_name(address) ==
  [j \in DOMAIN StripType(StripBlock(address)) |->
     lower(StripType(StripBlock(address))[j])]

\* name LIKE '%' || pattern || '%'
Like(name, pattern) ==
  \E o \in 0..(Len(name) - Len(pattern)) :
    SubSeq(name, o + 1, o + Len(pattern)) = pattern

\* A WHERE clause that does not look at the region.
Matching_AnyRegion(rows, address, search_region) ==
  {sc \in rows :
     /\ Like(sc.street_name_normalized, normalized_name(address))
     /\ sc.from_address # NullAddress
     /\ sc.from_address <= address[First(BlockPattern(address))].n
     /\ sc.to_address # NullAddress
     /\ sc.to_address >= address[First(BlockPattern(address))].n}

\* FROM street_centerlines sc WHERE sc.region = search_region AND
\* sc.street_name_normalized LIKE ... AND sc.from_address <= block_num AND
\* sc.to_address >= block_num; a comparison with NULL is not true.
Matching(rows, address, search_region) ==
  {sc \in rows :
     /\ sc.region = search_region
     /\ Like(sc.street_name_normalized, normalized_name(address))
     /\ sc.from_address # NullAddress
     /\ sc.from_address <= address[First(BlockPattern(address))].n
     /\ sc.to_address # NullAddress
     /\ sc.to_address >= address[First(BlockPattern(address))].n}

\* ST_LineInterpolatePoint(sc.geometry::geometry, 0.5)::geography as
\* location, 0.7 as confidence, 'block'::TEXT as resolution
BlockRow(sc) ==
  [location |-> [midpoint_of |-> sc.id], confidence |-> BlockPct,
   resolution |-> "block"]

\* The results the function may return: with no match of the pattern the
\* SELECT ... INTO leaves block_num and street_name NULL and the query finds
\* nothing; LIMIT 1 without an ORDER BY returns any one matching row.
GeocodeBlockAddress(rows, block_address, search_region) ==
  IF BlockPattern(block_address) = {}
       \/ Matching(rows, block_address, search_region) = {}
  THEN {{}}
  ELSE {{BlockRow(sc)} : sc \in Matching(rows, block_address, search_region)}

NoBlock ==
  [called |-> FALSE, block_address |-> <<>>, search_region |-> "none",
   result |-> {}]

\* A centerline is imported.
InsertCenterline(sc) ==
  /\ ~block_last.called
  /\ sc \notin street_centerlines
  /\ street_centerlines' = street_centerlines \cup {sc}
  /\ UNCHANGED block_last
  /\ UNCHANGED notBlock

\* SELECT * FROM geocode_block_address(block_address, search_region)
CallGeocodeBlock(block_address, search_region) ==
  /\ ~block_last.called
  /\ \E result \in GeocodeBlockAddress(street_centerlines, block_address,
                                       search_region) :
       block_last' = [called |-> TRUE, block_address |-> block_address,
                      search_region |-> search_region, result |-> result]
  /\ UNCHANGED street_centerlines
  /\ UNCHANGED notBlock

\* ---------------------------------------------------------------- processes
IdleWorker == [pc |-> "idle", report |-> 0, incident |-> NoIncident, seen |-> {}]

IdleHandler ==
  [pc |-> "idle", incident_id |-> NoIncident, linked |-> {}]

OthersIdle(x) ==
  /\ \A w \in Workers \ {x} : worker[w].pc = "idle"
  /\ \A p \in Operators \ {x} : handler[p].pc = "idle"

Quiescent == OthersIdle("nobody")

NoOp == [op |-> "none", inc |-> NoIncident, pre |-> "none", seen |-> {},
         http |-> 0, action |-> "none"]

Init ==
  /\ incident_reports = [r \in ReportIds |-> AbsentReport]
  /\ incidents = [i \in {} |-> 0]
  /\ allocated = 0
  /\ worker = [w \in Workers |-> IdleWorker]
  /\ handler = [p \in Operators |-> IdleHandler]
  /\ operator_calls = 0
  /\ last = NoOp
  /\ serial = TRUE
  /\ news_items = {}
  /\ runs = 0
  /\ ingested = {}
  /\ feed_last = NoRun
  /\ trend_last = NoTrend
  /\ rollup_data = {}
  /\ weekly_rollups = {}
  /\ rollup_runs = 0
  /\ rollup_last = NoRollup
  /\ review_rows = <<>>
  /\ get_last = NoGet
  /\ sources = [s \in {} |-> 0]
  /\ cycles = 0
  /\ failures = [s \in FeedSources |-> 0]
  /\ cycle_last = NoCycle
  /\ incident_locations = <<>>
  /\ canonical = <<>>
  /\ filed = <<>>
  /\ dedup_last = NoDedup
  /\ street_centerlines = {}
  /\ block_last = NoBlock

\* An operation by process x keeps the run serial when nobody else is busy.
SerialAfter(x) == serial /\ OthersIdle(x)

\* ------------------------------------------------------------- extraction
\* A source yields observation r and its row is inserted with the column
\* defaults: dedup_status 'pending', incident_id NULL.
Extract(r) ==
  /\ ~incident_reports[r].present
  /\ Cardinality(Present) < MaxReports
  /\ incident_reports' =
       [incident_reports EXCEPT ![r] = [AbsentReport EXCEPT !.present = TRUE]]
  /\ last' = NoOp
  /\ serial' = SerialAfter("nobody")
  /\ UNCHANGED notCore
  /\ UNCHANGED <<incidents, allocated, worker, handler, operator_calls>>

\* ------------------------------------------------------------ deduplicator
\* A worker may take a report that is pending and that no worker holds.  The
\* workers are interchangeable: of two idle workers, w1 takes the report.
Takes(w, r) ==
  /\ worker[w].pc = "idle"
  /\ w = "w2" => worker["w1"].pc # "idle"
  /\ r \in Present
  /\ incident_reports[r].dedup_status = "pending"
  /\ \A v \in Workers : worker[v].report # r

\* Link: the best candidate is at or above the threshold; set incident_id and
\* dedup_status = matched.  The recompute of the incident follows.
LinkReport(w, r, i) ==
  /\ Takes(w, r)
  /\ i \in Matches(r)
  /\ incident_reports' =
       [incident_reports EXCEPT ![r] =
          [@ EXCEPT !.dedup_status = "matched", !.incident_id = i]]
  /\ worker' = [worker EXCEPT ![w] =
                  [IdleWorker EXCEPT !.pc = "recalc", !.report = r, !.incident = i]]
  /\ last' = NoOp
  /\ serial' = SerialAfter(w)
  /\ UNCHANGED notCore
  /\ UNCHANGED <<incidents, allocated, handler, operator_calls>>

\* reviewed_at TIMESTAMPTZ: NULL until an operator reviews the incident.  The
\* time of a review is the number of the operator call that made it.
NotReviewed == 0

\* The incident row materialised from report r, with its derived state.
NewIncident(r) ==
  [origin |-> r,
   reviewed_at |-> NotReviewed,
   report_count |-> 1,
   source_types |-> SourceTypesOf({r}),
   confidence_score |-> ConfidenceOf({r}),
   review_status |-> new_status(ConfidenceOf({r}))]

\* New incident: no candidate reaches the threshold; insert the canonical
\* incident and set the report's incident_id and dedup_status = new_incident.
CreateIncident(w, r) ==
  /\ Takes(w, r)
  /\ Matches(r) = {}
  /\ allocated < MaxReports
  /\ allocated' = allocated + 1
  /\ incidents' =
       [i \in Live \cup {allocated + 1} |->
          IF i = allocated + 1 THEN NewIncident(r) ELSE incidents[i]]
  /\ incident_reports' =
       [incident_reports EXCEPT ![r] =
          [@ EXCEPT !.dedup_status = "new_incident",
                    !.incident_id = allocated + 1]]
  /\ worker' = [worker EXCEPT ![w] =
                  [IdleWorker EXCEPT !.pc = "recalc", !.report = r,
                                     !.incident = allocated + 1]]
  /\ last' = NoOp
  /\ serial' = SerialAfter(w)
  /\ UNCHANGED notCore
  /\ UNCHANGED <<handler, operator_calls>>

\* ------------------------------------------ recalculate_incident_confidence
\* SELECT AVG(...), COUNT(*), COUNT(DISTINCT s.source_type) INTO ...
\* FROM incident_reports r JOIN sources s ... WHERE r.incident_id = incident_uuid.
\* "Call this after linking a new report": the worker that linked or created
\* calls it on that incident.
RecalcSelect(w) ==
  /\ worker[w].pc = "recalc"
  /\ worker' = [worker EXCEPT ![w] =
                  [@ EXCEPT !.pc = "update", !.seen = Linked(worker[w].incident)]]
  /\ last' = NoOp
  /\ serial' = SerialAfter(w)
  /\ UNCHANGED notCore
  /\ UNCHANGED <<incident_reports, incidents, allocated, handler, operator_calls>>

\* The row written by UPDATE incidents SET confidence_score = new_confidence,
\* report_count = num_reports, review_status = CASE ... END WHERE id = ...
Recalculated(row, S) ==
  [row EXCEPT !.confidence_score = ConfidenceOf(S),
              !.report_count = num_reports(S),
              !.review_status = KeepOverride(@, new_status(ConfidenceOf(S)))]

RecalcUpdate(w) ==
  /\ worker[w].pc = "update"
  /\ LET i == worker[w].incident
     IN /\ incidents' =
             IF i \in Live
               THEN [incidents EXCEPT ![i] = Recalculated(@, worker[w].seen)]
               ELSE incidents
        /\ last' = [NoOp EXCEPT !.op = "RecalcUpdate", !.inc = i,
                                !.seen = worker[w].seen,
                                !.pre = IF i \in Live
                                          THEN incidents[i].review_status
                                          ELSE "none"]
  /\ worker' = [worker EXCEPT ![w] = IdleWorker]
  /\ serial' = SerialAfter(w)
  /\ UNCHANGED notCore
  /\ UNCHANGED <<incident_reports, allocated, handler, operator_calls>>

\* A cycle is cancelled (or its store call times out) while worker w is
\* between the link and the end of the recompute.  The link is committed; the
\* recompute, a later and separate call, has written nothing.
CancelCycle(w) ==
  /\ worker[w].pc \in {"recalc", "update"}
  /\ worker' = [worker EXCEPT ![w] = IdleWorker]
  /\ last' = NoOp
  /\ serial' = SerialAfter(w)
  /\ UNCHANGED notCore
  /\ UNCHANGED <<incident_reports, incidents, allocated, handler, operator_calls>>

\* ------------------------------------------------------ POST /review-queue
\* The actions a request body may carry; only approve and reject are valid.
Actions == {"approve", "reject", "retract"}

\* const newStatus = action === 'approve' ? 'approved' : 'rejected'
newStatus(action) == IF action = "approve" THEN "approved" ELSE "rejected"

\* An update that sets the status and leaves reviewed_at as it was.
Reviewed_NoStamp(id, action, now) ==
  IF id \in Live
    THEN [incidents EXCEPT ![id].review_status = newStatus(action)]
    ELSE incidents

\* .from('incidents').update({review_status: newStatus,
\*   reviewed_at: new Date().toISOString()}).eq('id', incident_id)
Reviewed(id, action, now) ==
  IF id \in Live
    THEN [incidents EXCEPT ![id].review_status = newStatus(action),
                           ![id].reviewed_at = now]
    ELSE incidents

\* A cascade that sends the linked reports back to the deduplicator.
Cascaded_Requeue(id) ==
  [r \in ReportIds |->
     IF incident_reports[r].present /\ incident_reports[r].incident_id = id
       THEN [incident_reports[r] EXCEPT !.dedup_status = "pending"]
       ELSE incident_reports[r]]

\* .from('incident_reports').update({dedup_status: 'rejected'})
\*   .eq('incident_id', incident_id)
Cascaded(id) ==
  [r \in ReportIds |->
     IF incident_reports[r].present /\ incident_reports[r].incident_id = id
       THEN [incident_reports[r] EXCEPT !.dedup_status = "rejected"]
       ELSE incident_reports[r]]

\* The response of the handler; of an error only the status code is kept.
Responded(code, id, action, linked) ==
  IF code = 200
    THEN [NoOp EXCEPT !.op = "POST", !.http = code, !.inc = id,
                      !.action = action, !.seen = linked]
    ELSE [NoOp EXCEPT !.op = "POST", !.http = code]

\* A check that looks at the incident_id only.
Refused_IdOnly(id, action) == id = NoIncident

\* if (!incident_id || !['approve', 'reject'].includes(action))
Refused(id, action) ==
  id = NoIncident \/ action \notin {"approve", "reject"}

\* The handler up to its first store call: the 400 check, then the update of
\* the incident, whose error gives 500; approve returns here.  An id is a
\* random UUID: a request names a row that exists or has existed, never one
\* that is created later.
PostRequest(p, id, action) ==
  /\ handler[p].pc = "idle"
  /\ id <= allocated
  /\ \/ /\ Refused(id, action)
        /\ last' = Responded(400, id, action, {})
        /\ UNCHANGED <<incidents, handler, operator_calls>>
     \/ /\ ~Refused(id, action)
        /\ operator_calls < MaxOperatorCalls
        /\ operator_calls' = operator_calls + 1
        /\ \/ /\ last' = Responded(500, id, action, {})
              /\ UNCHANGED <<incidents, handler>>
           \/ /\ action = "approve"
              /\ incidents' = Reviewed(id, action, operator_calls + 1)
              /\ last' = Responded(200, id, action, {})
              /\ UNCHANGED handler
           \/ /\ action = "reject"
              /\ incidents' = Reviewed(id, action, operator_calls + 1)
              /\ handler' = [handler EXCEPT ![p] =
                               [pc |-> "cascade", incident_id |-> id,
                                linked |-> Linked(id)]]
              /\ last' = NoOp
  /\ serial' = SerialAfter(p)
  /\ UNCHANGED notCore
  /\ UNCHANGED <<incident_reports, allocated, worker>>

\* if (action === 'reject') { await ...update(...) }: the result of the
\* cascade is not looked at, and the handler answers success either way.
PostCascade(p) ==
  /\ handler[p].pc = "cascade"
  /\ \/ incident_reports' = Cascaded(handler[p].incident_id)
     \/ UNCHANGED incident_reports
  /\ last' = Responded(200, handler[p].incident_id, "reject", handler[p].linked)
  /\ handler' = [handler EXCEPT ![p] = IdleHandler]
  /\ serial' = SerialAfter(p)
  /\ UNCHANGED notCore
  /\ UNCHANGED <<incidents, allocated, worker, operator_calls>>

\* ------------------------------------------------------- incident deletion
\* The foreign key declared ON DELETE CASCADE: the reports go with the incident.
OnDeleteCascade(i) ==
  [r \in ReportIds |->
     IF incident_reports[r].present /\ incident_reports[r].incident_id = i
       THEN AbsentReport
       ELSE incident_reports[r]]

\* incident_id UUID REFERENCES incidents(id) ON DELETE SET NULL
OnDeleteSetNull(i) ==
  [r \in ReportIds |->
     IF incident_reports[r].present /\ incident_reports[r].incident_id = i
       THEN [incident_reports[r] EXCEPT !.incident_id = NoIncident]
       ELSE incident_reports[r]]

\* DELETE FROM incidents WHERE id = i
DeleteIncident(i) ==
  /\ i \in Live
  /\ operator_calls < MaxOperatorCalls
  /\ operator_calls' = operator_calls + 1
  /\ incidents' = [j \in Live \ {i} |-> incidents[j]]
  /\ incident_reports' = OnDeleteSetNull(i)
  /\ last' = NoOp
  /\ serial' = SerialAfter("nobody")
  /\ UNCHANGED notCore
  /\ UNCHANGED <<allocated, worker, handler>>

\* ----------------------------------------------------------- specification
\* ------------------------------------------------------ row level security
\* A policy that lets every row through, as the one on sources does.
PublicReadPolicy_All(row) == TRUE

\* CREATE POLICY "Public read published incidents" ON incidents FOR SELECT
\* USING (review_status IN ('auto_published', 'unverified', 'approved'))
PublicReadPolicy(row) ==
  row.review_status \in {"auto_published", "unverified", "approved"}

\* A reader without the service role selects from incidents: one statement,
\* which sees the rows committed when it runs and that the policy lets through.
PublicSelect ==
  /\ last' = [NoOp EXCEPT !.op = "SELECT",
                          !.seen = {i \in Live : PublicReadPolicy(incidents[i])}]
  /\ serial' = serial
  /\ UNCHANGED notCore
  /\ UNCHANGED <<incident_reports, incidents, allocated, worker, handler,
                 operator_calls>>

Next ==
  \/ \E r \in ReportIds : Extract(r)
  \/ \E w \in Workers, r \in ReportIds, i \in IncidentIds : LinkReport(w, r, i)
  \/ \E w \in Workers, r \in ReportIds : CreateIncident(w, r)
  \/ \E w \in Workers : RecalcSelect(w)
  \/ \E w \in Workers : RecalcUpdate(w)
  \/ \E p \in Operators, id \in IncidentIds \cup {NoIncident}, a \in Actions :
       PostRequest(p, id, a)
  \/ \E p \in Operators : PostCascade(p)
  \/ \E i \in IncidentIds : DeleteIncident(i)

Spec == Init /\ [][Next]_vars

\* The pipeline and the operators, with public readers.
NextPublic == Next \/ PublicSelect

SpecPublic == Init /\ [][NextPublic]_vars

\* The deduplication workers alone, with cycles that may be cancelled.
NextCancel ==
  \/ \E r \in ReportIds : Extract(r)
  \/ \E w \in Workers, r \in ReportIds, i \in IncidentIds : LinkReport(w, r, i)
  \/ \E w \in Workers, r \in ReportIds : CreateIncident(w, r)
  \/ \E w \in Workers : RecalcSelect(w)
  \/ \E w \in Workers : RecalcUpdate(w)
  \/ \E w \in Workers : CancelCycle(w)

SpecCancel == Init /\ [][NextCancel]_vars

\* calcTrend applied to any two counts.
NextTrend == \E current \in 0..MaxCount, previous \in 0..MaxCount :
               CalcTrend(current, previous)

SpecTrend == Init /\ [][NextTrend]_vars

\* The weekly rollup job over data that grows.
NextRollup ==
  \/ \E k \in 1..Len(RollupData) : InsertRollupData(k)
  \/ \E w \in CurrentWeeks : generateWeeklyRollups(w)

SpecRollup == Init /\ [][NextRollup]_vars

\* The review queue read while incidents are created.
NextQueue ==
  \/ \E status \in {"needs_review", "approved"} : InsertReviewRow(status)
  \/ \E l \in LimitParams, o \in OffsetParams : GET(l, o)

SpecQueue == Init /\ [][NextQueue]_vars

\* The RSS ingestion script.
NextFeed ==
  \E source \in FeedSources, feedItems \in Feeds(MaxFeedLen) :
    processFeedItems(source, feedItems)

SpecFeed == Init /\ [][NextFeed]_vars

\* The ingestion script, run again and again.
\* No operation of this specification clears is_active, so the upsert of a
\* source that already has a row changes nothing in it and only the upserts of
\* new rows are let fail.
NextCycle ==
  \E refused \in SUBSET (FeedSources \ DOMAIN sources), selectError \in BOOLEAN,
     fetch \in [FeedSources -> FetchOutcomes] :
    ingestRssFeeds(refused, selectError, fetch)

SpecCycle == Init /\ [][NextCycle]_vars

\* The ingestion script run a few times while an operator switches sources
\* off and on; here the upsert of an existing row may fail too.
NextSources ==
  \/ \E refused \in SUBSET FeedSources, selectError \in BOOLEAN,
        fetch \in [FeedSources -> FetchOutcomes] :
       RunBetweenEdits(refused, selectError, fetch)
  \/ \E s \in FeedSources, active \in BOOLEAN : SetActive(s, active)

SpecSources == Init /\ [][NextSources]_vars

\* Incidents rows and their location columns.
NextGeo ==
  \/ \E match \in Lookups : InsertGeocoded(match)
  \/ InsertDefault

SpecGeo == Init /\ [][NextGeo]_vars

\* The deduplicator run serially over reports on the bounds.
NextDedup == \E k \in DOMAIN DedupReports : process_report(k)

SpecDedup == Init /\ [][NextDedup]_vars

\* The block geocoder over a centerline table that is being loaded.
NextBlock ==
  \/ \E sc \in Centerlines : InsertCenterline(sc)
  \/ \E block_address \in BlockAddresses, search_region \in Regions :
       CallGeocodeBlock(block_address, search_region)

SpecBlock == Init /\ [][NextBlock]_vars

\* ------------------------------------------------------------ the claims
Status(r) == incident_reports[r].dedup_status

\* The last step was the UPDATE of recalculate_incident_confidence and its
\* incident row exists.
Recalculated_(i) == last.op = "RecalcUpdate" /\ last.inc = i /\ i \in Live

\* C1. Override preservation: a recalculate_incident_confidence that finds
\* review_status approved or rejected leaves it as it is, whatever links,
\* approvals and rejections came before or in between.
C1_OverridePreserved ==
  \A i \in IncidentIds :
    Recalculated_(i) /\ last.pre \in {"approved", "rejected"}
      => incidents[i].review_status = last.pre

\* A recompute over two or more reports has run on an approved incident
\* whose new confidence proposes another status.
C1_Witness ==
  \E i \in IncidentIds :
    /\ Recalculated_(i)
    /\ last.pre = "approved"
    /\ Cardinality(last.seen) >= 2
    /\ incidents[i].report_count = Cardinality(last.seen)

\* C2. Derived-field correctness: after links each followed by a recompute,
\* run one after the other, report_count is the number of linked reports,
\* source_types the set of their sources' types and confidence_score the
\* confidence function of that set.
C2_DerivedFields ==
  serial /\ Quiescent =>
    \A i \in Live :
      /\ incidents[i].report_count = Cardinality(Linked(i))
      /\ incidents[i].source_types = SourceTypesOf(Linked(i))
      /\ incidents[i].confidence_score = ConfidenceOf(Linked(i))

C4_StatusByThreshold ==
  \A i \in IncidentIds :
    Recalculated_(i) /\ last.pre \notin {"approved", "rejected"} =>
      LET c == incidents[i].confidence_score
          st == incidents[i].review_status
      IN /\ c >= 90 * K => st = "auto_published"
         /\ c >= 60 * K /\ c < 90 * K => st = "unverified"
         /\ c < 60 * K => st = "needs_review"
         /\ st \in {"auto_published", "unverified", "needs_review"}

\* A recompute has written a confidence of exactly 0.9 and auto_published.
C4_Witness ==
  \E i \in IncidentIds :
    /\ Recalculated_(i)
    /\ last.pre \notin {"approved", "rejected"}
    /\ incidents[i].confidence_score = 90 * K
    /\ incidents[i].review_status = "auto_published"

\* C5. Reject cascade: once POST /review-queue with action reject has
\* answered success, the incident is rejected and every report that was linked
\* to it when the request was made has dedup_status rejected.
C5_RejectCascade ==
  \A i \in Live :
    last.op = "POST" /\ last.http = 200 /\ last.action = "reject" /\ last.inc = i
      => /\ incidents[i].review_status = "rejected"
         /\ \A r \in last.seen : Status(r) = "rejected"

\* C7. Linking monotonicity as claimed: every change of a dedup_status starts
\* from pending and ends in matched, new_incident or rejected.
C7_OnlyFromPending ==
  [][\A r \in ReportIds :
       Status(r)' # Status(r) =>
         /\ Status(r) = "pending"
         /\ Status(r)' \in {"matched", "new_incident", "rejected"}]_vars

\* C7 as amended: a change of dedup_status goes from pending to matched,
\* new_incident or rejected, or from matched or new_incident to rejected (the
\* reject cascade); no report returns to pending.
C7_MonotonicWithCascade ==
  [][\A r \in ReportIds :
       Status(r)' # Status(r) =>
         /\ Status(r)' # "pending"
         /\ \/ /\ Status(r) = "pending"
               /\ Status(r)' \in {"matched", "new_incident", "rejected"}
            \/ /\ Status(r) \in {"matched", "new_incident"}
               /\ Status(r)' = "rejected"
               /\ \E p \in Operators : handler[p].pc = "cascade"]_vars

\* The reject cascade has moved a linked report to rejected.
C7_Witness ==
  /\ last.op = "POST" /\ last.action = "reject"
  /\ \E r \in last.seen :
       Status(r) = "rejected" /\ incident_reports[r].incident_id = last.inc

\* C8 as claimed: a report that is matched or new_incident has an incident_id,
\* also after its incident has been deleted.
C8_LinkedHasIncident ==
  \A r \in Present :
    Status(r) \in {"matched", "new_incident"}
      => incident_reports[r].incident_id # NoIncident

\* C8 as amended: a matched or new_incident report loses its incident_id only
\* by the deletion of the incident it points to; the deletion nulls the
\* reference, leaves dedup_status alone and deletes no report, and a reference
\* that is set points to a row of incidents.
C8_NullOnlyByDelete ==
  [][/\ Present \subseteq Present'
     /\ \A r \in Present' :
          /\ incident_reports'[r].incident_id # NoIncident
               => incident_reports'[r].incident_id \in Live'
          /\ Status(r)' \in {"matched", "new_incident"}
             /\ incident_reports'[r].incident_id = NoIncident
               => \/ incident_reports'[r] = incident_reports[r]
                  \/ /\ incident_reports[r].incident_id \in Live \ Live'
                     /\ Status(r)' = Status(r)]_vars

\* An incident with a linked report has been deleted: the report is still
\* there, still matched or new_incident, with no incident_id.
C8_Witness ==
  /\ Cardinality(Live) < allocated
  /\ \E r \in Present :
       /\ Status(r) \in {"matched", "new_incident"}
       /\ incident_reports[r].incident_id = NoIncident

\* C9. Scenario A: the scanner report (observation 1) is ingested and linked,
\* then the news report of 06:00 (observation 2); the outcome is one incident
\* with report_count 2, source_types {audio, html}, confidence 0.975 and
\* review_status auto_published.
C9_ScenarioA ==
  /\ serial /\ Quiescent /\ operator_calls = 0
  /\ Present = {1, 2}
  /\ \A r \in Present : Status(r) \in {"matched", "new_incident"}
  /\ 1 \in Live /\ incidents[1].origin = 1
  => /\ Live = {1}
     /\ incidents[1].report_count = 2
     /\ incidents[1].source_types = {"audio", "html"}
     /\ incidents[1].confidence_score * 10 = 975 * K
     /\ incidents[1].review_status = "auto_published"

\* C10. Serialized recompute: once the workers that linked reports to an
\* incident have all finished their recompute, report_count and
\* confidence_score are those of all the reports linked to it.
C10_SerializedRecompute ==
  (\A w \in Workers : worker[w].pc = "idle") =>
    \A i \in Live :
      /\ incidents[i].report_count = Cardinality(Linked(i))
      /\ incidents[i].confidence_score = ConfidenceOf(Linked(i))

\* What does hold: when the operations ran one after the other, the count and
\* the confidence are those of the linked reports.
SerialRecomputeCorrect ==
  serial /\ Quiescent =>
    \A i \in Live :
      /\ incidents[i].report_count = Cardinality(Linked(i))
      /\ incidents[i].confidence_score = ConfidenceOf(Linked(i))

\* C6. Idempotent ingestion: a run of processFeedItems on a source and a list
\* of feed items that an earlier run has already brought to the store changes
\* nothing: no row is added, none is changed, and no two rows ever share
\* (source_id, external_id).
C6_IdempotentIngestion ==
  [][/\ \A source \in FeedSources, feedItems \in Feeds(MaxFeedLen) :
          /\ <<source, feedItems>> \in ingested
          /\ runs' = runs + 1
          /\ feed_last'.source = source /\ feed_last'.items = feedItems
          => news_items' = news_items
     /\ \A a, b \in news_items' :
          a.source_id = b.source_id /\ a.external_id = b.external_id => a = b
     /\ news_items \subseteq news_items']_vars

\* The same non-empty batch has been run twice without error and its rows
\* are in the store once.
C6_Witness ==
  /\ runs = 2
  /\ ~feed_last.error
  /\ <<feed_last.source, feed_last.items>> \in ingested
  /\ Cardinality(ingested) = 1
  /\ feed_last.inserted = 0
  /\ Cardinality(news_items) = 2

\* C11. No partially-linked report: when cycles ran one after the other and
\* any of them may have been cancelled at any step, every report is either
\* pending with no incident_id, or linked to an incident whose report_count,
\* confidence_score and review_status count it.
C11_NoPartialLink ==
  serial /\ Quiescent =>
    \A r \in Present :
      \/ Status(r) = "pending" /\ incident_reports[r].incident_id = NoIncident
      \/ LET i == incident_reports[r].incident_id
         IN /\ i \in Live
            /\ incidents[i].report_count = Cardinality(Linked(i))
            /\ incidents[i].confidence_score = ConfidenceOf(Linked(i))
            /\ incidents[i].review_status
                 \in {"approved", "rejected", new_status(ConfidenceOf(Linked(i)))}

\* The integers that round(num / den) may name, den > 0: the nearest integer,
\* and at a tie the one chosen by rounding half up (Math.round), half to even
\* or half away from zero.
HalfUp(num, den) == (2 * num + den) \div (2 * den)

Roundings(num, den) ==
  IF (2 * num) % (2 * den) # den THEN {HalfUp(num, den)}
  ELSE {HalfUp(num, den),
        IF HalfUp(num, den) % 2 = 0 THEN HalfUp(num, den) ELSE HalfUp(num, den) - 1,
        IF num > 0 THEN HalfUp(num, den) ELSE HalfUp(num, den) - 1}

\* C13. calcTrend(current, previous) returns round(100 (current - previous) /
\* previous) when previous > 0, 100 when previous = 0 and current > 0, and 0
\* when both are 0; calcTrend(10, 8) is 25.
C13_CalcTrend ==
  trend_last.called =>
    LET current == trend_last.current
        previous == trend_last.previous
    IN /\ previous > 0 =>
            trend_last.result \in Roundings(100 * (current - previous), previous)
       /\ previous = 0 /\ current > 0 => trend_last.result = 100
       /\ previous = 0 /\ current = 0 => trend_last.result = 0
       /\ current = 10 /\ previous = 8 => trend_last.result = 25

\* C12. Rollup idempotence and key uniqueness: a run of generateWeeklyRollups
\* in the same week and over the same incidents and news items as the run
\* before it leaves the rows of weekly_rollups as they were, and there is at
\* most one row per (week_start, municipality), the region-wide key with a
\* null municipality included.
C12_RollupIdempotent ==
  [][/\ /\ rollup_runs' = rollup_runs + 1
        /\ rollup_last.called
        /\ rollup_last'.week = rollup_last.week
        /\ rollup_last.inputs = rollup_data
        => weekly_rollups' = weekly_rollups
     /\ \A a, b \in weekly_rollups' :
          a.week_start = b.week_start /\ a.municipality = b.municipality
            => a = b]_vars

\* C14. After a run of generateWeeklyRollups every row it wrote counts
\* exactly the incidents with week_start <= occurred_at < week_start + 7 days
\* (of its municipality, or of all for the region-wide row), and
\* incident_count is the sum of the counts by category.
C14_WeekWindow ==
  rollup_runs = 1 /\ rollup_last.inputs = rollup_data =>
    \A row \in weekly_rollups :
      /\ row.incident_count =
           Cardinality({d \in rollup_data :
                          /\ d.table = "incidents"
                          /\ d.at >= row.week_start
                          /\ d.at < row.week_start + WeekMs
                          /\ row.municipality # Null
                               => d.municipality = row.municipality})
      /\ row.incident_count = SumCounts(row.incidents_by_category)

\* C15 as claimed: a GET that succeeds returns only incidents in needs_review,
\* at most 50 of them, namely those at the places offset .. offset + limit - 1
\* of the queue, for the limit and offset given as parameters.
C15_GetQueueByParams ==
  get_last.called /\ get_last.http = 200 =>
    /\ \A i \in get_last.queue : review_rows[i] = "needs_review"
    /\ Cardinality(get_last.queue) <= 50
    /\ get_last.queue =
         Range(review_rows, parseParam(get_last.offset, 0),
               parseParam(get_last.offset, 0)
                 + parseParam(get_last.limit, 20) - 1)

\* C15 as amended: for an offset >= 0 a GET that succeeds returns only
\* incidents in needs_review, at most 50 of them, namely those at the places
\* offset .. offset + min(limit, 50) - 1 of the queue; a GET that fails
\* returns none.
C15_GetQueueCapped ==
  get_last.called =>
    LET o == parseParam(get_last.offset, 0)
        l == parseParam(get_last.limit, 20)
        n == IF l < 50 THEN l ELSE 50
    IN /\ \A i \in get_last.queue : review_rows[i] = "needs_review"
       /\ Cardinality(get_last.queue) <= 50
       /\ get_last.http = 200 /\ o >= 0 =>
            get_last.queue =
              {i \in 1..Len(review_rows) :
                 /\ review_rows[i] = "needs_review"
                 /\ Cardinality({j \in 1..(i - 1) :
                                   review_rows[j] = "needs_review"}) \in o..(o + n - 1)}
       /\ get_last.http # 200 => get_last.queue = {}

\* A GET with limit 60 has returned the first 50 of 51 queued incidents and
\* left out a row that is not in needs_review.
C15_Witness ==
  /\ get_last.called /\ get_last.http = 200
  /\ get_last.limit = <<60>> /\ get_last.offset = <<>>
  /\ Cardinality(get_last.queue) = 50
  /\ Cardinality(NeedsReview(review_rows)) = 51
  /\ \E i \in 1..50 : review_rows[i] # "needs_review"

\* C16. Public visibility: every incident a reader without the service role
\* is given has review_status auto_published, unverified or approved, none is
\* in needs_review or rejected; and once POST reject has answered success the
\* incident is no longer among the rows such a reader is given.
C16_PublicVisibility ==
  /\ last.op = "SELECT" =>
       \A i \in last.seen :
         /\ i \in Live
         /\ incidents[i].review_status \in {"auto_published", "unverified", "approved"}
         /\ incidents[i].review_status \notin {"needs_review", "rejected"}
  /\ last.op = "POST" /\ last.http = 200 /\ last.action = "reject"
       /\ last.inc \in Live
       => ~PublicReadPolicy(incidents[last.inc])

\* A public read has returned one incident and withheld a rejected one.
C16_Witness ==
  /\ last.op = "SELECT"
  /\ last.seen # {}
  /\ \E i \in Live \ last.seen : incidents[i].review_status = "rejected"

\* C17: in a run of ingestRssFeeds the last_fetched_at of a source is written
\* only if the fetch of that source succeeded in this run; a source whose
\* fetch failed keeps its last_fetched_at, and every other source the run
\* selected is still fetched and, if its fetch succeeded, processed.
C17_LastFetchedOnSuccess ==
  [][cycles' = cycles + 1 =>
       /\ \A s \in DOMAIN sources' :
            LET before == IF s \in DOMAIN sources
                          THEN sources[s].last_fetched_at ELSE NullTime
            IN /\ sources'[s].last_fetched_at # before
                    => /\ s \in cycle_last'.processed
                       /\ ~(s \in cycle_last'.failed)
               /\ s \in cycle_last'.failed
                    => sources'[s].last_fetched_at = before
       /\ cycle_last'.exit = 0 =>
            cycle_last'.failed \cup cycle_last'.processed
              = ActiveSources(sources')
       /\ \A s \in cycle_last'.processed :
            sources'[s].last_fetched_at = cycles']_vars

\* A run in which the first source fetched failed and a later one succeeded:
\* the failed one keeps an older stamp, the later one has this run's.
C17_Witness ==
  /\ Len(cycle_last.order) = 2
  /\ cycle_last.order[1] \in cycle_last.failed
  /\ cycle_last.order[2] \in cycle_last.processed
  /\ sources[cycle_last.order[1]].last_fetched_at \notin {NullTime, cycles}
  /\ sources[cycle_last.order[2]].last_fetched_at = cycles
  /\ \E row \in news_items : row.source_id = cycle_last.order[2]

\* C18: a source whose fetch has failed in 10 cycles in a row is inactive and
\* is not fetched again, so that it never fails an 11th time in a row.
C18_DeactivatedAfterFailures ==
  \A s \in DOMAIN sources :
    /\ failures[s] >= 10 => ~sources[s].is_active
    /\ failures[s] <= 10

\* C19: when an item of the feed has no usable external id, or the store
\* refuses the row of an item, every other item of the feed that has an
\* external id is in news_items after processFeedItems returns.
C19_ItemIsolation ==
  LET batch == newsItems(feed_last.source, feed_last.items)
  IN (/\ feed_last.source # "none"
      /\ \/ feed_last.refused > 0
         \/ ~feed_last.error /\ Len(batch) < Len(feed_last.items))
     => \A j \in (1..Len(batch)) \ {feed_last.refused} :
          \/ Conflicts(news_items, batch[j])
          \/ feed_last.refused > 0 /\ batch[j] = batch[feed_last.refused]

\* C20: over the incidents rows, a row of an earlier tier in the order parcel,
\* block, centroid, unknown has at least the location_confidence of a row of
\* a later tier, and a row whose location_resolution is unknown has
\* location_confidence 0.
C20_TierLaw ==
  \A k, l \in DOMAIN incident_locations :
    /\ TierRank(incident_locations[k].location_resolution)
          <= TierRank(incident_locations[l].location_resolution)
         => incident_locations[k].location_confidence
              >= incident_locations[l].location_confidence
    /\ incident_locations[k].location_resolution = "unknown"
         => incident_locations[k].location_confidence = 0

\* C21: a POST approve that answers success on an existing incident sets its
\* review_status to approved and its reviewed_at to the time of the request,
\* and leaves every report row and the incident's report_count and
\* confidence_score as they were.
C21_ApproveFrame ==
  [][(/\ last'.op = "POST" /\ last'.http = 200 /\ last'.action = "approve"
      /\ operator_calls' = operator_calls + 1
      /\ last'.inc \in Live)
     => /\ last'.inc \in DOMAIN incidents'
        /\ incidents'[last'.inc].review_status = "approved"
        /\ incidents'[last'.inc].reviewed_at = operator_calls'
        /\ incidents'[last'.inc].report_count = incidents[last'.inc].report_count
        /\ incidents'[last'.inc].confidence_score
             = incidents[last'.inc].confidence_score
        /\ incident_reports' = incident_reports
        /\ \A i \in Live \ {last'.inc} : incidents'[i] = incidents[i]]_vars

\* An incident with two linked reports has been approved by the latest
\* operator call, after an earlier call.
C21_Witness ==
  /\ last.op = "POST" /\ last.http = 200 /\ last.action = "approve"
  /\ last.inc \in Live
  /\ incidents[last.inc].review_status = "approved"
  /\ incidents[last.inc].reviewed_at = operator_calls
  /\ operator_calls = 2
  /\ incidents[last.inc].report_count = 2
  /\ Cardinality(Linked(last.inc)) = 2

C24_DecisionRule ==
  dedup_last.called =>
    LET report == filed[Len(filed)]
        best == {row \in dedup_last.rows :
                   \A other \in dedup_last.rows :
                     other.match_score <= row.match_score}
    IN /\ report.report = dedup_last.report
       /\ report.dedup_status = "matched"
            <=> \E row \in best : row.match_score >= 297000
       /\ report.dedup_status = "matched" =>
            /\ report.incident_id \in {row.incident_id : row \in best}
            /\ Len(canonical) = Len(dedup_last.before)
            /\ canonical[report.incident_id].report_count
                 = Cardinality({k \in DOMAIN filed :
                                  filed[k].incident_id = report.incident_id})
            /\ canonical[report.incident_id].report_count
                 = dedup_last.before[report.incident_id].report_count + 1
       /\ report.dedup_status # "matched" =>
            /\ report.dedup_status = "new_incident"
            /\ Len(canonical) = Len(dedup_last.before) + 1
            /\ report.incident_id = Len(canonical)
            /\ canonical[Len(canonical)].report_count = 1
            /\ \A i \in DOMAIN dedup_last.before :
                 canonical[i] = dedup_last.before[i]

\* A report has been linked at a score of exactly 0.55, after another report
\* whose best candidate scored less made an incident of its own.
C24_Witness ==
  /\ dedup_last.called
  /\ filed[Len(filed)].dedup_status = "matched"
  /\ \E row \in dedup_last.rows :
       /\ row.match_score = 297000
       /\ row.incident_id = filed[Len(filed)].incident_id
  /\ \E k \in DOMAIN filed :
       /\ filed[k].dedup_status = "new_incident"
       /\ \E i \in 1..(filed[k].incident_id - 1) :
            /\ WhereClause(canonical[i], DedupReports[filed[k].report])
            /\ ScoreOf(canonical[i], DedupReports[filed[k].report]) > 0

\* C25: among the rows of the best score, the row the candidate query
\* returns first is the one at the smallest distance, then with the smallest
\* absolute time difference, then with the smallest incident id.
C25_TieBreak ==
  (dedup_last.called /\ dedup_last.rows # {}) =>
    \E f \in dedup_last.rows :
      /\ f.incident_id = dedup_last.first
      /\ \A row \in dedup_last.rows :
           \/ row.match_score < f.match_score
           \/ /\ row.match_score = f.match_score
              /\ \/ f.distance_meters < row.distance_meters
                 \/ /\ f.distance_meters = row.distance_meters
                    /\ \/ Abs(f.time_diff_minutes) < Abs(row.time_diff_minutes)
                       \/ /\ Abs(f.time_diff_minutes) = Abs(row.time_diff_minutes)
                          /\ f.incident_id <= row.incident_id

C27_PostFrame ==
  [][(last'.op = "POST" \/ handler' # handler) =>
       \A p \in Operators :
         \A id \in IncidentIds \cup {NoIncident}, action \in Actions :
           (\/ PostRequest(p, id, action)
            \/ /\ PostCascade(p)
               /\ handler[p].incident_id = id
               /\ action = "reject")
           => /\ (id = NoIncident \/ action \notin {"approve", "reject"})
                   <=> (last'.op = "POST" /\ last'.http = 400)
              /\ (id = NoIncident \/ action \notin {"approve", "reject"})
                   => /\ incidents' = incidents
                      /\ incident_reports' = incident_reports
              /\ DOMAIN incidents' = DOMAIN incidents
              /\ \A i \in Live :
                   /\ i # id => incidents'[i] = incidents[i]
                   /\ [incidents'[i] EXCEPT
                         !.review_status = incidents[i].review_status,
                         !.reviewed_at = incidents[i].reviewed_at]
                        = incidents[i]
              /\ \A r \in ReportIds :
                   \/ incident_reports'[r] = incident_reports[r]
                   \/ /\ action = "reject"
                      /\ incident_reports[r].incident_id = id
                      /\ [incident_reports'[r] EXCEPT
                            !.dedup_status = incident_reports[r].dedup_status]
                           = incident_reports[r]
              /\ UNCHANGED <<allocated, worker>>]_vars

\* A request has been refused while an incident with two linked reports and
\* an earlier review exists.
C27_Witness ==
  /\ last.op = "POST" /\ last.http = 400
  /\ \E i \in Live :
       /\ Cardinality(Linked(i)) = 2
       /\ incidents[i].reviewed_at # NotReviewed

\* C28. Under every interleaving of report linking, recompute and POST
\* approve/reject calls, every report linked to an incident whose review_status
\* is rejected has dedup_status rejected, and no report with dedup_status
\* rejected is linked to an incident whose review_status is approved.  The
\* states in which a reject of that incident stands between its two updates
\* are left out: the statement is about what the calls leave behind.
C28_RejectedTogether ==
  \A r \in ReportIds :
    \A i \in Live :
      (/\ incident_reports[r].present
       /\ incident_reports[r].incident_id = i
       /\ \A p \in Operators :
            ~(handler[p].pc = "cascade" /\ handler[p].incident_id = i))
      => /\ incidents[i].review_status = "rejected" => Status(r) = "rejected"
         /\ Status(r) = "rejected" => incidents[i].review_status # "approved"

\* C29. For every list of feed items, the counts returned by processFeedItems
\* add up to the number of feed items, inserted being the number of rows the
\* call has created in news_items: an item without an external id and an item
\* already present are counted as skipped.
C29_CountsAddUp ==
  [][runs' # runs =>
       /\ feed_last'.inserted = Cardinality(news_items') - Cardinality(news_items)
       /\ feed_last'.inserted + feed_last'.skipped = Len(feed_last'.items)]_vars

\* C30. A source that is inactive when a run of the ingestion script starts is
\* inactive when the run ends and is not fetched in it: the upsert of
\* ensureSources creates no second row for its url and leaves its is_active
\* alone; only the operator makes it active again.
C30_StaysInactive ==
  [][cycles' # cycles =>
       \A s \in DOMAIN sources :
         ~sources[s].is_active =>
           /\ s \in DOMAIN sources'
           /\ ~sources'[s].is_active
           /\ \A k \in DOMAIN cycle_last'.order : cycle_last'.order[k] # s]_vars

====
